---- MODULE Spec2Model ----
(***************************************************************************)
(* Model of src/api/questions/routes.py: the tenant-scoped question,       *)
(* answer and comment handlers of the Q&A backend.                         *)
(*                                                                         *)
(* The three collections are sequences in insertion order.  The free-text  *)
(* payloads (title, description, answer, comment) are opaque to every      *)
(* handler and are left out of the records.  A handler with several store  *)
(* round trips whose interleaving matters (get_question_by_id and          *)
(* generate_ai_answer_route) is modelled one await at a time; the others   *)
(* touch the store once with data that never changes and are one action.   *)
(*                                                                         *)
(* The handlers share nothing but the store, so the properties are checked *)
(* under three specifications, each made of the handlers that write what   *)
(* its properties read: SpecList (the question list), SpecWrite (the       *)
(* writers of answers) and SpecDetail (the detail view against every       *)
(* writer).  Spec is all of them together.                                 *)
(***************************************************************************)
EXTENDS Integers, Sequences, FiniteSets, TLC

\* ---------------------------------------------------------------- bounds
\* documents the store comes to hold, over the three collections
MaxDocs == 3

\* ------------------------------------------------------- callers, inputs
\* verify_in_company yields the caller: its id ("sub") and its company.
Users == { [sub |-> "u1", company_id |-> "A"],
           [sub |-> "u2", company_id |-> "B"] }

Companies == { u.company_id : u \in Users }

\* Python's None where a string is expected
None == "None"

\* no caller, no document, no body
Null == [null |-> TRUE]

\* company.ai_answer_enabled: company configuration, never written here
AiEnabled == [c \in Companies |-> c = "A"]

NoTags     == {}                       \* question_data.get("tags", [])
TagSets    == { NoTags, {"x", "y"} }   \* question_data["tags"]
TagFilters == { {}, {"x"} }            \* tags query parameter ({} = absent)
SortKeys   == { "upvotes", "created_at" }
Pages      == 0 .. MaxDocs
PageSizes  == -1 .. 2

\* ------------------------------------------------------------------- ids
\* A document id is an ObjectId; a path parameter and str(question.id) are
\* strings.  Both carry the same identity n.
ObjectId(n) == [repr |-> "oid", n |-> n]

Str(id) == [repr |-> "str", n |-> id.n]

\* The store's match of a reference against an id: same identity, whatever
\* the representation the handler passed.
RefMatches(stored, given) == stored.n = given.n

VARIABLES
    questions,   \* Question collection, insertion order
    answers,     \* Answer collection, insertion order
    comments,    \* Comment collection, insertion order
    nextId,      \* next identity the store assigns
    get,         \* the get_question_by_id request in flight
    gen,         \* the generate_ai_answer_route request in flight
    resp         \* the last completed request and its response

vars == <<questions, answers, comments, nextId, get, gen, resp>>

\* the ids a caller can name: those assigned so far and one that is not
PathIds == { [repr |-> "str", n |-> n] : n \in 1 .. nextId }

\* ------------------------------------------------------------- the store
Resolves(coll, id) == \E i \in 1 .. Len(coll) : RefMatches(coll[i].id, id)

\* Document.get(id)
Get(coll, id) == coll[CHOOSE i \in 1 .. Len(coll) : RefMatches(coll[i].id, id)]

Min(a, b) == IF a < b THEN a ELSE b

Abs(a) == IF a < 0 THEN 0 - a ELSE a

Front(s) == SubSeq(s, 1, Len(s) - 1)

Last(s) == s[Len(s)]

RECURSIVE InsertSorted(_, _, _)
\* x placed behind every element that sorts before it or ties with it
InsertSorted(s, x, dir) ==
    IF s = <<>> THEN <<x>>
    ELSE IF dir * Head(s).upvotes <= dir * x.upvotes
         THEN <<Head(s)>> \o InsertSorted(Tail(s), x, dir)
         ELSE <<x>> \o s

RECURSIVE Sort(_, _)
\* .sort(dir): one key with a direction, ties in insertion order
Sort(s, dir) ==
    IF s = <<>> THEN <<>>
    ELSE InsertSorted(Sort(Front(s), dir), Last(s), dir)

\* .skip(n), n >= 0
Skip(s, n) == SubSeq(s, n + 1, Len(s))

\* .limit(n): 0 is "no limit", a negative n is taken as its magnitude
Limit(s, n) == IF n = 0 THEN s ELSE SubSeq(s, 1, Min(Abs(n), Len(s)))

\* ------------------------------------------------------------- responses
NoResp == [op |-> "none", caller |-> Null, req |-> Null,
           status |-> 0, detail |-> None, body |-> Null]

Response(op, caller, req, status, detail, body) ==
    [op |-> op, caller |-> caller, req |-> req,
     status |-> status, detail |-> detail, body |-> body]

\* ------------------------------------------------------- create_question
create_question(current_user, tags) ==
    /\ nextId <= MaxDocs
    /\ LET question == [id         |-> ObjectId(nextId),
                        tags       |-> tags,
                        company_id |-> current_user.company_id,
                        user_id    |-> current_user.sub,
                        upvotes    |-> 0]
       IN /\ questions' = Append(questions, question)
          /\ nextId' = nextId + 1
          /\ resp' = Response("createQuestion", current_user, Null,
                              200, "Question created successfully",
                              Str(question.id))
    /\ UNCHANGED <<answers, comments, get, gen>>

\* --------------------------------------------------------- get_questions
\* query = {"tags": {"$in": tags}} if tags, plus company_id
QueryMatches(q, tags, company_id) ==
    /\ (tags # {} => q.tags \cap tags # {})
    /\ q.company_id = company_id

SortDirection(sort_by) == IF sort_by = "upvotes" THEN -1 ELSE -1

\* mutant: pages counted from 0
Offset_ZeroBased(page, page_size) == page * page_size

Offset(page, page_size) == (page - 1) * page_size

\* Question.find(query).sort(...)
FindSorted(qs, current_user, tags, sort_by) ==
    Sort(SelectSeq(qs, LAMBDA q : QueryMatches(q, tags, current_user.company_id)),
         SortDirection(sort_by))

\* ... .skip((page - 1) * page_size).limit(page_size)
QuestionsPage(qs, current_user, page, page_size, tags, sort_by) ==
    Limit(Skip(FindSorted(qs, current_user, tags, sort_by),
               Offset(page, page_size)),
          page_size)

\* what get_questions answers over the Question collection qs
ListResponse(qs, current_user, page, page_size, tags, sort_by) ==
    LET req == [page |-> page, page_size |-> page_size, tags |-> tags,
                sort_by |-> sort_by,
                \* the window handed to the store
                window |-> [skip |-> Offset(page, page_size),
                            limit |-> page_size]]
    IN IF Offset(page, page_size) < 0
       THEN \* the store rejects a negative skip; nothing catches it
            Response("listQuestions", current_user, req,
                     500, "Internal Server Error", <<>>)
       ELSE Response("listQuestions", current_user, req, 200, None,
                     QuestionsPage(qs, current_user, page, page_size,
                                   tags, sort_by))

get_questions(current_user, page, page_size, tags, sort_by) ==
    /\ resp' = ListResponse(questions, current_user, page, page_size,
                            tags, sort_by)
    /\ UNCHANGED <<questions, answers, comments, nextId, get, gen>>

\* ---------------------------------------------------- get_question_by_id
GetIdle == [pc |-> "idle", caller |-> Null, question_id |-> Null,
            question |-> Null, answers |-> <<>>, idx |-> 0,
            answers_at_start |-> 0, comments_at_start |-> 0]

\* mutant: the company of the question is not compared with the caller's
QuestionOutcome_NoTenantCheck(qs, current_user, question_id) ==
    IF ~ Resolves(qs, question_id)
    THEN [status |-> 404, detail |-> "Question not found"]
    ELSE [status |-> 200, detail |-> None]

\* What the caller receives for question_id, as far as the first two checks go
QuestionOutcome(qs, current_user, question_id) ==
    IF ~ Resolves(qs, question_id)
    THEN [status |-> 404, detail |-> "Question not found"]
    ELSE IF Get(qs, question_id).company_id # current_user.company_id
         THEN [status |-> 403, detail |-> "Access denied"]
         ELSE [status |-> 200, detail |-> None]

AnswerView(a, cs) ==
    [id |-> a.id, question_id |-> a.question_id, user_id |-> a.user_id,
     upvotes |-> a.upvotes, is_ai |-> a.is_ai, comments |-> cs]

\* mutant: the answers are not filtered by question
AnswersOf_NoFilter(as, question_id) == as

\* mutant: find_one in place of find
AnswersOf_FirstOnly(as, question_id) ==
    LET found == SelectSeq(as, LAMBDA a : RefMatches(a.question_id, question_id))
    IN IF found = <<>> THEN <<>> ELSE <<Head(found)>>

\* Answer.find(Answer.question_id == question_id)
AnswersOf(as, question_id) ==
    SelectSeq(as, LAMBDA a : RefMatches(a.question_id, question_id))

\* Comment.find(Comment.answer_id == answer.id)
CommentsOf(cs, answer_id) ==
    SelectSeq(cs, LAMBDA c : RefMatches(c.answer_id, answer_id))

GetReq(g) == [answers_at_start |-> g.answers_at_start,
              comments_at_start |-> g.comments_at_start]

\* the state of the request after a fetch: the loop goes on, or it returns
GetAdvance(g) ==
    IF g.idx <= Len(g.answers)
    THEN /\ get' = g
         /\ UNCHANGED resp
    ELSE /\ get' = GetIdle
         /\ resp' = Response("getQuestion", g.caller, GetReq(g), 200, None,
                             [question |-> g.question, answers |-> g.answers])

\* question = await Question.get(question_id), and the two checks
get_question_by_id_question(current_user, question_id) ==
    /\ get.pc = "idle"
    /\ LET out == QuestionOutcome(questions, current_user, question_id)
           g   == [GetIdle EXCEPT !.caller = current_user,
                                  !.question_id = question_id,
                                  !.answers_at_start = Len(answers),
                                  !.comments_at_start = Len(comments)]
       IN IF out.status # 200
          THEN /\ resp' = Response("getQuestion", current_user, Null,
                                   out.status, out.detail, Null)
               /\ UNCHANGED get
          ELSE /\ get' = [g EXCEPT !.pc = "answers",
                                   !.question = Get(questions, question_id)]
               /\ UNCHANGED resp
    /\ UNCHANGED <<questions, answers, comments, nextId, gen>>

\* answers = await Answer.find(...).to_list()
get_question_by_id_answers ==
    /\ get.pc = "answers"
    /\ LET found == AnswersOf(answers, get.question_id)
       IN GetAdvance([get EXCEPT !.pc = "comments",
                                 !.answers = [i \in 1 .. Len(found) |->
                                                 AnswerView(found[i], <<>>)],
                                 !.idx = 1])
    /\ UNCHANGED <<questions, answers, comments, nextId, gen>>

\* answer.comments = await Comment.find(...).to_list(), one answer per step
get_question_by_id_comments ==
    /\ get.pc = "comments"
    /\ LET answer == get.answers[get.idx]
       IN GetAdvance([get EXCEPT !.answers[get.idx].comments =
                                      CommentsOf(comments, answer.id),
                                 !.idx = get.idx + 1])
    /\ UNCHANGED <<questions, answers, comments, nextId, gen>>

\* ------------------------------------------------------- answer_question
answer_question(current_user, question_id) ==
    /\ IF ~ Resolves(questions, question_id)
       THEN /\ resp' = Response("createAnswer", current_user, Null,
                                404, "Question not found", Null)
            /\ UNCHANGED <<answers, nextId>>
       ELSE /\ nextId <= MaxDocs
            /\ answers' = Append(answers, [id          |-> ObjectId(nextId),
                                           question_id |-> question_id,
                                           user_id     |-> current_user.sub,
                                           upvotes     |-> 0,
                                           is_ai       |-> FALSE])
            /\ nextId' = nextId + 1
            /\ resp' = Response("createAnswer", current_user, Null,
                                200, "Answer added successfully", Null)
    /\ UNCHANGED <<questions, comments, get, gen>>

\* ----------------------------------------------------- comment_on_answer
comment_on_answer(current_user, answer_id) ==
    /\ IF ~ Resolves(answers, answer_id)
       THEN /\ resp' = Response("createComment", current_user, Null,
                                404, "Answer not found", Null)
            /\ UNCHANGED <<comments, nextId>>
       ELSE /\ nextId <= MaxDocs
            /\ comments' = Append(comments, [id        |-> ObjectId(nextId),
                                             answer_id |-> answer_id,
                                             user_id   |-> current_user.sub])
            /\ nextId' = nextId + 1
            /\ resp' = Response("createComment", current_user, Null,
                                200, "Comment added successfully", Null)
    /\ UNCHANGED <<questions, answers, get, gen>>

\* ---------------------------------------------- generate_ai_answer_route
GenIdle == [pc |-> "idle", caller |-> Null, question_id |-> Null]

\* mutant: ai_answer_enabled is not looked at
generate_ai_answer_route_check_NoFlag(current_user, question_id) ==
    /\ gen.pc = "idle"
    /\ IF ~ Resolves(questions, question_id)
       THEN /\ resp' = Response("generateAiAnswer", current_user, Null,
                                404, "Question not found", Null)
            /\ UNCHANGED gen
       ELSE /\ gen' = [pc |-> "generating", caller |-> current_user,
                       question_id |-> question_id]
            /\ UNCHANGED resp
    /\ UNCHANGED <<questions, answers, comments, nextId, get>>

\* the question lookup and the company's ai_answer_enabled check
generate_ai_answer_route_check(current_user, question_id) ==
    /\ gen.pc = "idle"
    /\ IF ~ Resolves(questions, question_id)
       THEN /\ resp' = Response("generateAiAnswer", current_user, Null,
                                404, "Question not found", Null)
            /\ UNCHANGED gen
       ELSE IF ~ AiEnabled[current_user.company_id]
            THEN /\ resp' = Response("generateAiAnswer", current_user, Null, 403,
                                     "AI-generated answers are disabled", Null)
                 /\ UNCHANGED gen
            ELSE \* await generate_ai_answer(question.title, question.description)
                 /\ gen' = [pc |-> "generating", caller |-> current_user,
                            question_id |-> question_id]
                 /\ UNCHANGED resp
    /\ UNCHANGED <<questions, answers, comments, nextId, get>>

\* what the await of generate_ai_answer gives the handler: the answer text,
\* or an exception when the generator errors or times out
GeneratorOutcomes == { "text", "GenerationFailure" }

\* mutant: the AI answer is given the caller as its author
generate_ai_answer_route_resume_WithAuthor(outcome) ==
    /\ gen.pc = "generating"
    /\ IF outcome = "text"
       THEN /\ nextId <= MaxDocs
            /\ answers' = Append(answers, [id          |-> ObjectId(nextId),
                                           question_id |-> gen.question_id,
                                           user_id     |-> gen.caller.sub,
                                           upvotes     |-> 0,
                                           is_ai       |-> TRUE])
            /\ nextId' = nextId + 1
            /\ resp' = Response("generateAiAnswer", gen.caller, Null, 200,
                                "AI-generated answer added successfully",
                                [answer |-> "ai_answer"])
       ELSE /\ resp' = Response("generateAiAnswer", gen.caller, Null, 500,
                                "GenerationFailure", Null)
            /\ UNCHANGED <<answers, nextId>>
    /\ gen' = GenIdle
    /\ UNCHANGED <<questions, comments, get>>

\* mutant: the answer is inserted before its text is there
generate_ai_answer_route_resume_Partial(outcome) ==
    /\ gen.pc = "generating"
    /\ nextId <= MaxDocs
    /\ answers' = Append(answers, [id          |-> ObjectId(nextId),
                                   question_id |-> gen.question_id,
                                   user_id     |-> None,
                                   upvotes     |-> 0,
                                   is_ai       |-> TRUE])
    /\ nextId' = nextId + 1
    /\ resp' = IF outcome = "text"
               THEN Response("generateAiAnswer", gen.caller, Null, 200,
                             "AI-generated answer added successfully",
                             [answer |-> "ai_answer"])
               ELSE Response("generateAiAnswer", gen.caller, Null, 500,
                             "GenerationFailure", Null)
    /\ gen' = GenIdle
    /\ UNCHANGED <<questions, comments, get>>

\* the await of line 110 is over.  With the text the answer is built and
\* inserted; an exception leaves the handler there, before the insert.
generate_ai_answer_route_resume(outcome) ==
    /\ gen.pc = "generating"
    /\ IF outcome = "text"
       THEN /\ nextId <= MaxDocs
            /\ answers' = Append(answers, [id          |-> ObjectId(nextId),
                                           question_id |-> gen.question_id,
                                           user_id     |-> None,
                                           upvotes     |-> 0,
                                           is_ai       |-> TRUE])
            /\ nextId' = nextId + 1
            /\ resp' = Response("generateAiAnswer", gen.caller, Null, 200,
                                "AI-generated answer added successfully",
                                [answer |-> "ai_answer"])
       ELSE /\ resp' = Response("generateAiAnswer", gen.caller, Null, 500,
                                "GenerationFailure", Null)
            /\ UNCHANGED <<answers, nextId>>
    /\ gen' = GenIdle
    /\ UNCHANGED <<questions, comments, get>>

\* ------------------------------------------------------------ the system
Init ==
    /\ questions = <<>>
    /\ answers = <<>>
    /\ comments = <<>>
    /\ nextId = 1
    /\ get = GetIdle
    /\ gen = GenIdle
    /\ resp = NoResp

Next ==
    \/ \E u \in Users, tags \in TagSets : create_question(u, tags)
    \/ \E u \in Users, page \in Pages, page_size \in PageSizes,
          tags \in TagFilters, sort_by \in SortKeys :
          get_questions(u, page, page_size, tags, sort_by)
    \/ \E u \in Users, id \in PathIds : get_question_by_id_question(u, id)
    \/ get_question_by_id_answers
    \/ get_question_by_id_comments
    \/ \E u \in Users, id \in PathIds : answer_question(u, id)
    \/ \E u \in Users, id \in PathIds : comment_on_answer(u, id)
    \/ \E u \in Users, id \in PathIds : generate_ai_answer_route_check(u, id)
    \/ \E outcome \in GeneratorOutcomes :
          generate_ai_answer_route_resume(outcome)

Spec == Init /\ [][Next]_vars

\* The question list on its own: questions are created and listed.
NextList ==
    \/ \E u \in Users, tags \in TagSets : create_question(u, tags)
    \/ \E u \in Users, page \in Pages, page_size \in PageSizes,
          tags \in TagFilters, sort_by \in SortKeys :
          get_questions(u, page, page_size, tags, sort_by)

SpecList == Init /\ [][NextList]_vars

\* The writers of the Answer collection.
NextWrite ==
    \/ \E u \in Users : create_question(u, NoTags)
    \/ \E u \in Users, id \in PathIds : answer_question(u, id)
    \/ \E u \in Users, id \in PathIds : generate_ai_answer_route_check(u, id)
    \/ \E outcome \in GeneratorOutcomes :
          generate_ai_answer_route_resume(outcome)

SpecWrite == Init /\ [][NextWrite]_vars

\* The detail view running against every writer.
NextDetail ==
    \/ \E u \in Users : create_question(u, NoTags)
    \/ \E u \in Users, id \in PathIds : get_question_by_id_question(u, id)
    \/ get_question_by_id_answers
    \/ get_question_by_id_comments
    \/ \E u \in Users, id \in PathIds : answer_question(u, id)
    \/ \E u \in Users, id \in PathIds : comment_on_answer(u, id)
    \/ \E u \in Users, id \in PathIds : generate_ai_answer_route_check(u, id)
    \/ \E outcome \in GeneratorOutcomes :
          generate_ai_answer_route_resume(outcome)

SpecDetail == Init /\ [][NextDetail]_vars

\* ===================================================== properties checked
Range(s) == { s[i] : i \in 1 .. Len(s) }

Ids(s) == { s[i].id : i \in 1 .. Len(s) }

\* ids are assigned in increasing order, so this is creation order
InCreationOrder(s) == \A i, j \in 1 .. Len(s) : i < j => s[i].id.n < s[j].id.n

ListResponses(u) ==
    { ListResponse(questions, u, page, page_size, tags, sort_by) :
          page \in Pages, page_size \in PageSizes,
          tags \in TagFilters, sort_by \in SortKeys }

\* no page of the question list holds a question of another company
ListIsolated ==
    \A u \in Users : \A r \in ListResponses(u) :
        \A q \in Range(r.body) : q.company_id = u.company_id

\* no detail view, built or being built, holds a document under a question
\* of another company
DetailIsolated ==
    /\ get.pc # "idle" => get.question.company_id = get.caller.company_id
    /\ resp.op = "getQuestion" =>
          IF resp.status = 200
          THEN /\ resp.body.question.company_id = resp.caller.company_id
               /\ \A v \in Range(resp.body.answers) :
                     /\ Get(questions, v.question_id).company_id
                            = resp.caller.company_id
                     /\ \A c \in Range(v.comments) :
                            RefMatches(c.answer_id, v.id)
          ELSE resp.body = Null

\* C1: a question of one tenant is in no page get_questions gives a caller of
\* another tenant, whatever the page, page size, tags and sort key, and
\* get_question_by_id hands a caller no question of another tenant, nor an
\* answer or a comment under such a question.  The Question collection
\* changes in create_question alone, so the pages are looked at in the
\* states that handler leaves.
C1_TenantIsolation ==
    /\ DetailIsolated
    /\ resp.op = "createQuestion" => ListIsolated

\* a caller was refused a question of another tenant that has an answer
C1_Witness ==
    /\ resp.op = "getQuestion"
    /\ resp.status = 403
    /\ \E q \in Range(questions) :
          /\ q.company_id # resp.caller.company_id
          /\ \E a \in Range(answers) : RefMatches(a.question_id, q.id)
    /\ \E q \in Range(questions) : q.company_id = resp.caller.company_id

\* C2: every answer is appended by a caller of the tenant of the question it
\* references (answer_question and generate_ai_answer_route check the
\* question's company before they insert).
C2_AnswerInCallerTenant ==
    (resp.op \in {"createAnswer", "generateAiAnswer"} /\ resp.status = 200) =>
        Get(questions, Last(answers).question_id).company_id
            = resp.caller.company_id

\* The view of question q that is exact for the store as it is now.
ExactView(view) ==
    LET q == view.question
        mine == { a \in Range(answers) : RefMatches(a.question_id, q.id) }
    IN /\ q \in Range(questions)
       /\ Ids(view.answers) = { a.id : a \in mine }
       /\ Len(view.answers) = Cardinality(mine)
       /\ InCreationOrder(view.answers)
       /\ \A v \in Range(view.answers) :
             LET theirs == { c \in Range(comments) :
                                RefMatches(c.answer_id, v.id) }
             IN /\ \E a \in mine : v = AnswerView(a, v.comments)
                /\ Range(v.comments) = theirs
                /\ Len(v.comments) = Cardinality(theirs)
                /\ InCreationOrder(v.comments)

\* no answer or comment was inserted since the request began
NoWriteSince(r) ==
    /\ r.req.answers_at_start = Len(answers)
    /\ r.req.comments_at_start = Len(comments)

\* C3: with no write since it began, get_question_by_id by a member of the
\* question's tenant returns the question with exactly its persisted answers,
\* each with exactly its persisted comments, in creation order; a question
\* without answers gives an empty answers sequence.
C3_ExactViewWhenQuiet ==
    (resp.op = "getQuestion" /\ resp.status = 200 /\ NoWriteSince(resp)) =>
        /\ ExactView(resp.body)
        /\ (\A a \in Range(answers) :
                ~ RefMatches(a.question_id, resp.body.question.id))
              => resp.body.answers = <<>>

\* create Q, answer A1 under Q, comment C1 under A1, then the view
C3_Witness ==
    /\ resp.op = "getQuestion"
    /\ resp.status = 200
    /\ NoWriteSince(resp)
    /\ Len(resp.body.answers) = 1
    /\ Len(resp.body.answers[1].comments) = 1

\* C4: an answer has an author exactly when it is not AI-generated.
C4_AuthorIffHuman ==
    \A a \in Range(answers) : (a.user_id # None) <=> ~ a.is_ai

C4_Witness ==
    /\ \E a \in Range(answers) : a.is_ai
    /\ \E a \in Range(answers) : ~ a.is_ai

\* C5 as stated: a caller whose company has AI answering disabled is always
\* answered Forbidden, whether the question id resolves or not.
C5_AlwaysForbidden ==
    (resp.op = "generateAiAnswer" /\ ~ AiEnabled[resp.caller.company_id]) =>
        /\ resp.status = 403
        /\ resp.detail = "AI-generated answers are disabled"

\* C5, amended: a caller whose company has AI answering disabled is answered
\* Forbidden when the question id resolves and NotFound when it does not; in
\* both cases the generator is not called, nothing is inserted and the
\* answers are as before.
C5_DisabledNeverGenerates ==
    /\ [](gen.pc = "generating" => AiEnabled[gen.caller.company_id])
    /\ [][\A u \in Users, id \in PathIds :
            (~ AiEnabled[u.company_id] /\ generate_ai_answer_route_check(u, id))
            => /\ resp'.op = "generateAiAnswer"
               /\ resp'.caller = u
               /\ resp'.status = IF Resolves(questions, id) THEN 403 ELSE 404
               /\ gen' = gen
               /\ UNCHANGED <<questions, answers, comments, nextId>>]_vars

\* a caller of the disabled company was refused while answers exist
C5_Witness ==
    /\ resp.op = "generateAiAnswer"
    /\ ~ AiEnabled[resp.caller.company_id]
    /\ resp.status = 403
    /\ answers # <<>>

\* C6: when the generator fails the request fails with GenerationFailure and
\* the store is as before; an AI answer is inserted only by the step that
\* follows the generator returning its text.
C6_NoPartialAnswer ==
    /\ [][generate_ai_answer_route_resume("GenerationFailure") =>
            /\ resp'.op = "generateAiAnswer"
            /\ resp'.detail = "GenerationFailure"
            /\ resp'.status >= 500
            /\ UNCHANGED <<questions, answers, comments, nextId>>]_vars
    /\ [][(Len(answers') > Len(answers) /\ Last(answers').is_ai) =>
            /\ gen.pc = "generating"
            /\ Last(answers').question_id = gen.question_id
            /\ resp'.op = "generateAiAnswer"
            /\ resp'.status = 200
            /\ resp'.body = [answer |-> "ai_answer"]]_vars

\* a generation failed after a question had been answered
C6_Witness ==
    /\ resp.op = "generateAiAnswer"
    /\ resp.detail = "GenerationFailure"
    /\ answers # <<>>

RECURSIVE ConcatPages(_, _, _, _, _)
\* pages 1 .. k of page size s, one after the other
ConcatPages(u, k, s, tags, sort_by) ==
    IF k = 0 THEN <<>>
    ELSE ConcatPages(u, k - 1, s, tags, sort_by)
            \o ListResponse(questions, u, k, s, tags, sort_by).body

\* C7: a page of size s >= 1 has at most s items, and pages 1 .. k over an
\* unchanged store, one after the other, are the first min(k*s, N) items of
\* the full filtered and sorted result, with no question twice.
C7_PagesPartition ==
    (resp.op = "listQuestions" /\ resp.req.page >= 1
                               /\ resp.req.page_size >= 1) =>
        LET u    == resp.caller
            s    == resp.req.page_size
            k    == resp.req.page
            full == FindSorted(questions, u, resp.req.tags, resp.req.sort_by)
            cat  == ConcatPages(u, k, s, resp.req.tags, resp.req.sort_by)
        IN /\ resp.status = 200
           /\ Len(resp.body) <= s
           /\ cat = SubSeq(full, 1, Min(k * s, Len(full)))
           /\ Cardinality(Ids(cat)) = Len(cat)

\* the second page of size 1 was listed and is not empty
C7_Witness ==
    /\ resp.op = "listQuestions"
    /\ resp.req.page = 2
    /\ resp.req.page_size = 1
    /\ Len(resp.body) = 1
    /\ Len(FindSorted(questions, resp.caller, resp.req.tags,
                      resp.req.sort_by)) >= 2

WithoutQuestion(qs, id) == SelectSeq(qs, LAMBDA q : ~ RefMatches(q.id, id))

\* C8: a caller refused by get_question_by_id is answered as it would be if
\* no question of another tenant had the id it asked for: the answer for the
\* id of another tenant's question is the answer for an id that resolves to
\* nothing.
C8_NoExistenceLeak ==
    (resp.op = "getQuestion" /\ resp.status # 200) =>
        \A q \in Range(questions) :
            q.company_id # resp.caller.company_id =>
                [status |-> resp.status, detail |-> resp.detail]
                    = QuestionOutcome(WithoutQuestion(questions, q.id),
                                      resp.caller, Str(q.id))

\* C9: get_questions with page < 1 or page_size <= 0 fails with a validation
\* error and hands the store no window; an accepted call hands the store the
\* offset (page-1)*page_size, which is not negative, and a positive limit.
C9_PageValidation ==
    resp.op = "listQuestions" =>
        IF resp.req.page < 1 \/ resp.req.page_size <= 0
        THEN resp.status = 422
        ELSE /\ resp.status = 200
             /\ resp.req.window.skip
                    = (resp.req.page - 1) * resp.req.page_size
             /\ resp.req.window.skip >= 0
             /\ resp.req.window.limit >= 1

\* C10: whatever is written while get_question_by_id runs, every answer of
\* the view is a persisted answer of the question, every comment under it is
\* a persisted comment of that answer, and every answer of the question
\* persisted before the request began is in the view.
C10_ViewUnderWrites ==
    (resp.op = "getQuestion" /\ resp.status = 200) =>
        LET q == resp.body.question
        IN /\ \A v \in Range(resp.body.answers) :
                 /\ \E a \in Range(answers) :
                       /\ a.id = v.id
                       /\ v = AnswerView(a, v.comments)
                       /\ RefMatches(a.question_id, q.id)
                 /\ \A c \in Range(v.comments) :
                       /\ c \in Range(comments)
                       /\ RefMatches(c.answer_id, v.id)
           /\ \A i \in 1 .. resp.req.answers_at_start :
                 RefMatches(answers[i].question_id, q.id)
                     => answers[i].id \in Ids(resp.body.answers)

\* the view holds an answer inserted after the request began
C10_Witness ==
    /\ resp.op = "getQuestion"
    /\ resp.status = 200
    /\ \E i \in resp.req.answers_at_start + 1 .. Len(answers) :
          answers[i].id \in Ids(resp.body.answers)

====
